---- MODULE Spec2Model ----
(***************************************************************************)
(* Model of gateway/metrics/add_metrics.go: AddMetricsHandler decorates a  *)
(* function-listing handler with Prometheus metrics; mixIn merges four     *)
(* query results into the function list; parseMetricValue converts one     *)
(* sample value.                                                           *)
(*                                                                         *)
(* float64 values are modelled as whole numbers plus NaN (the value that   *)
(* strconv.ParseFloat accepts and encoding/json refuses to serialise).     *)
(* A byte slice is modelled by its kind (JSON text, text that is no JSON,  *)
(* nothing, a plain-text diagnostic), its layout and the list it encodes.  *)
(***************************************************************************)
EXTENDS Integers, Sequences, FiniteSets, TLC

VARIABLES
    pc,         \* position of the request in the handler (or "mixIn" in SpecMerge)
    recorder,   \* httptest.ResponseRecorder: what the wrapped handler wrote
    upstreamBody, \* bytes read from the captured body
    functions,  \* var functions []requests.Function
    results,    \* the query results fetched so far, in the order of the four fetches
    fetchErr,   \* the last fetch returned an error
    issued,     \* the expressions handed to prometheusQuery.Fetch, in order
    bytesOut,   \* result of json.Marshal(functions)
    w,          \* the real http.ResponseWriter
    before,     \* the function list as it was when mixIn was last entered
    calls,      \* number of mixIn calls made
    nilArg,     \* mixIn is called with functions == nil
    panicked,   \* the last mixIn call ended in a run-time panic
    served,     \* number of handler.ServeHTTP calls made by the request
    wlog,       \* the calls made on the real http.ResponseWriter, in order
    peer,       \* the local state of a second handler invocation running beside this one
    answers     \* what the collaborators answer: the upstream output and one answer per expression

vars == <<pc, recorder, upstreamBody, functions, results, fetchErr, issued, bytesOut, w,
          before, calls, nilArg, panicked, served, wlog, peer, answers>>

\* the variables of one handler invocation
local == <<pc, recorder, upstreamBody, functions, results, fetchErr, issued, bytesOut, w,
           before, calls, nilArg, panicked, served, wlog>>

----------------------------------------------------------------------------
\* Bounds of the model.

MaxFuncs == 2      \* longest function list the upstream handler returns
MaxSamples == 2    \* most samples the metrics backend returns in one request (all queries together)
MaxCalls == 2      \* most consecutive mixIn calls in SpecMerge

----------------------------------------------------------------------------
\* float64

Num(n) == [nan |-> FALSE, v |-> n]
NaN == [nan |-> TRUE, v |-> 0]

\* float64 addition: NaN absorbs
FAdd(a, b) == IF a.nan \/ b.nan THEN NaN ELSE Num(a.v + b.v)

----------------------------------------------------------------------------
\* interface{} values as encoding/json decodes them

Str(s) == [type |-> "string", s |-> s]
Float64Value == [type |-> "float64", s |-> ""]

\* strconv.ParseFloat(s, 64) on the strings of the model
ParseFloat(s) ==
    CASE s = "1" -> [val |-> Num(1), err |-> FALSE]
      [] s = "2" -> [val |-> Num(2), err |-> FALSE]
      [] s = "NaN" -> [val |-> NaN, err |-> FALSE]
      [] OTHER -> [val |-> Num(0), err |-> TRUE]

\* parseMetricValue: only a string is parsed; any other type falls through the
\* switch and returns the zero values (0, nil)
parseMetricValue(metricValue) ==
    IF metricValue.type = "string"
    THEN ParseFloat(metricValue.s)
    ELSE [val |-> Num(0), err |-> FALSE]

----------------------------------------------------------------------------
\* requests.Function and VectorQueryResponse

Fields == <<"InvocationCount", "InvocationCount2XX", "InvocationCountNon2XX", "AverageResponseTime">>

Function(name, p) ==
    [Name |-> name,
     InvocationCount |-> Num(p[1]),
     InvocationCount2XX |-> Num(p[2]),
     InvocationCountNon2XX |-> Num(p[3]),
     AverageResponseTime |-> Num(p[4])]

Sample(name, value) == [Metric |-> [FunctionName |-> name], Value |-> value]

\* *VectorQueryResponse
Response(result) == [isNil |-> FALSE, Data |-> [Result |-> result]]
NilResponse == [isNil |-> TRUE, Data |-> [Result |-> <<>>]]

\* *[]requests.Function
Ptr(slice) == [isNil |-> FALSE, elems |-> slice]
NilPtr == [isNil |-> TRUE, elems |-> <<>>]

----------------------------------------------------------------------------
\* Input domains

SeqsUpTo(S, n) == UNION {[1..k -> S] : k \in 0..n}

FunctionNames == {"fn1", "fn2"}
\* the derived fields as the upstream body carries them: absent (0) or set
Priors == {<<0, 0, 0, 0>>, <<5, 6, 7, 8>>}
FunctionLists ==
    {[i \in 1..Len(names) |-> Function(names[i], p)] :
        names \in SeqsUpTo(FunctionNames, MaxFuncs), p \in Priors}

Samples ==
    {Sample("fn1", <<Float64Value, Str(s)>>) : s \in {"1", "abc", "NaN"}}
    \cup {Sample("fn2", <<Float64Value, Str("1")>>),
          Sample("Fn1", <<Float64Value, Str("2")>>),
          Sample("fn1", <<Float64Value, Float64Value>>),
          Sample("fn1", <<Float64Value>>)}

RECURSIVE TotalLen(_)
TotalLen(rs) ==
    IF rs = <<>> THEN 0 ELSE Len(rs[1].Data.Result) + TotalLen(Tail(rs))

\* the responses a fetch may return when `used` samples were returned before
Responses(used) == {Response(r) : r \in SeqsUpTo(Samples, MaxSamples - used)}

----------------------------------------------------------------------------
\* mixIn

\* `v.Metric.FunctionName == function.Name`
NameMatchesFold(sampleName, functionName) ==
    LET lower(s) == IF s = "Fn1" THEN "fn1" ELSE s
    IN lower(sampleName) = lower(functionName)

NameMatches(sampleName, functionName) == sampleName = functionName

\* "Ensure values are empty first."
ResetKeepLatency(fs) ==
    [i \in 1..Len(fs) |->
        [fs[i] EXCEPT !.InvocationCount = Num(0),
                      !.InvocationCount2XX = Num(0),
                      !.InvocationCountNon2XX = Num(0)]]

ResetNothing(fs) == fs

ResetWhole(fs) == [i \in 1..Len(fs) |-> Function("", <<0, 0, 0, 0>>)]

Reset(fs) ==
    [i \in 1..Len(fs) |->
        [fs[i] EXCEPT !.InvocationCount = Num(0),
                      !.InvocationCount2XX = Num(0),
                      !.InvocationCountNon2XX = Num(0),
                      !.AverageResponseTime = Num(0)]]

\* one `for _, v := range X.Data.Result` loop, from sample j on, adding into
\* field f of function i; st = [functions, panicked]
RECURSIVE ScanSamplesOverwrite(_, _, _, _, _)
ScanSamplesOverwrite(st, i, f, R, j) ==
    IF st.panicked \/ j > Len(R) THEN st
    ELSE IF NameMatches(R[j].Metric.FunctionName, st.functions[i].Name)
         THEN IF Len(R[j].Value) < 2
              THEN [st EXCEPT !.panicked = TRUE]
              ELSE LET p == parseMetricValue(R[j].Value[2])
                   IN ScanSamplesOverwrite(IF ~p.err
                                  THEN [st EXCEPT !.functions[i][f] = p.val]
                                  ELSE st, i, f, R, j + 1)
         ELSE ScanSamplesOverwrite(st, i, f, R, j + 1)

RECURSIVE ScanSamplesBreak(_, _, _, _, _)
ScanSamplesBreak(st, i, f, R, j) ==
    IF st.panicked \/ j > Len(R) THEN st
    ELSE IF NameMatches(R[j].Metric.FunctionName, st.functions[i].Name)
         THEN IF Len(R[j].Value) < 2
              THEN [st EXCEPT !.panicked = TRUE]
              ELSE LET p == parseMetricValue(R[j].Value[2])
                   IN IF ~p.err
                      THEN ScanSamplesBreak([st EXCEPT !.functions[i][f] = FAdd(@, p.val)],
                                            i, f, R, j + 1)
                      ELSE st
         ELSE ScanSamplesBreak(st, i, f, R, j + 1)

RECURSIVE ScanSamples(_, _, _, _, _)
ScanSamples(st, i, f, R, j) ==
    IF st.panicked \/ j > Len(R) THEN st
    ELSE IF NameMatches(R[j].Metric.FunctionName, st.functions[i].Name)
         THEN IF Len(R[j].Value) < 2
              THEN [st EXCEPT !.panicked = TRUE]     \* v.Value[1]: index out of range
              ELSE LET p == parseMetricValue(R[j].Value[2])
                   IN ScanSamples(IF ~p.err
                                  THEN [st EXCEPT !.functions[i][f] = FAdd(@, p.val)]
                                  ELSE st, i, f, R, j + 1)
         ELSE ScanSamples(st, i, f, R, j + 1)

\* the range over one query result; a nil *VectorQueryResponse is dereferenced
RangeResult(st, i, f, metrics) ==
    IF st.panicked THEN st
    ELSE IF metrics.isNil THEN [st EXCEPT !.panicked = TRUE]
    ELSE ScanSamples(st, i, f, metrics.Data.Result, 1)

\* body of `for i, function := range *functions`
MixInFunctionSwapped(st, i, m1, m2, m3, m4) ==
    RangeResult(
        RangeResult(
            RangeResult(
                RangeResult(st, i, "InvocationCount", m1),
                i, "InvocationCountNon2XX", m2),
            i, "InvocationCount2XX", m3),
        i, "AverageResponseTime", m4)

MixInFunction(st, i, m1, m2, m3, m4) ==
    RangeResult(
        RangeResult(
            RangeResult(
                RangeResult(st, i, "InvocationCount", m1),
                i, "InvocationCount2XX", m2),
            i, "InvocationCountNon2XX", m3),
        i, "AverageResponseTime", m4)

RECURSIVE MixInLoop(_, _, _, _, _, _)
MixInLoop(st, i, m1, m2, m3, m4) ==
    IF st.panicked \/ i > Len(st.functions) THEN st
    ELSE MixInLoop(MixInFunction(st, i, m1, m2, m3, m4), i + 1, m1, m2, m3, m4)

\* mixIn(functions, invocationCountMetrics, invocationCount2XXMetrics,
\*       invocationCountNon2XXMetrics, averageResponseTimeMetrics)
\* returns the list as the call leaves it and whether the call panicked
mixIn(fnptr, m1, m2, m3, m4) ==
    IF fnptr.isNil
    THEN [functions |-> fnptr.elems, panicked |-> FALSE]
    ELSE MixInLoop([functions |-> Reset(fnptr.elems), panicked |-> FALSE],
                   1, m1, m2, m3, m4)

----------------------------------------------------------------------------
\* Byte slices

NoBytes == [kind |-> "none", layout |-> "", funcs |-> <<>>, text |-> <<>>]
EmptyBytes == [kind |-> "empty", layout |-> "", funcs |-> <<>>, text |-> <<>>]
Garbage == [kind |-> "garbage", layout |-> "", funcs |-> <<>>, text |-> <<>>]
JSONBytes(layout, fs) == [kind |-> "json", layout |-> layout, funcs |-> fs, text |-> <<>>]
Text(t) == [kind |-> "text", layout |-> "", funcs |-> <<>>, text |-> t]

\* json.Unmarshal(data, &functions)
Unmarshal(data) ==
    CASE data.kind = "json" -> [functions |-> data.funcs, err |-> ""]
      [] data.kind = "empty" -> [functions |-> <<>>, err |-> "unexpected end of JSON input"]
      [] OTHER -> [functions |-> <<>>, err |-> "invalid character"]

HasNaN(fs) == \E i \in 1..Len(fs) : \E q \in 1..4 : fs[i][Fields[q]].nan

\* json.Marshal(functions): compact layout; NaN is an unsupported value
Marshal(fs) ==
    IF HasNaN(fs)
    THEN [bytes |-> NoBytes, err |-> "json: unsupported value: NaN"]
    ELSE [bytes |-> JSONBytes("compact", fs), err |-> ""]

\* %d of fmt.Sprintf on the status codes of the model
Itoa(code) ==
    CASE code = 200 -> "200"
      [] code = 404 -> "404"
      [] code = 503 -> "503"
      [] OTHER -> "?"

StatusOK == 200
StatusInternalServerError == 500

StatusCodes == {200, 404, 503}
UpstreamBodies ==
    {Garbage, EmptyBytes}
    \cup {JSONBytes(l, fs) : l \in {"compact", "spaced"}, fs \in FunctionLists}

----------------------------------------------------------------------------
\* The handler returned by AddMetricsHandler

\* http.ResponseWriter: Code = 0 until WriteHeader is called
NewWriter == [ContentType |-> "", Code |-> 0, Body |-> NoBytes]

\* httptest.NewRecorder()
NewRecorder == [Code |-> 200, ContentType |-> "", Body |-> EmptyBytes]

\* the Content-Type header the wrapped handler sets for a body
UpstreamContentType(body) ==
    IF body.kind = "json" THEN "application/json; charset=utf-8" ELSE "text/html"

\* recorder.Result(): the response always carries a body (http.NoBody when
\* nothing was written)
Result(rec) == [StatusCode |-> rec.Code, Body |-> [isNil |-> FALSE, bytes |-> rec.Body]]

\* url.QueryEscape
QueryEscape(s) == [escaped |-> TRUE, of |-> s]

InvocationCountExpr == "sum(gateway_function_invocation_total{function_name=~\".*\", code=~\".*\"}) by (function_name, code)"
InvocationCount2XXExpr == "sum(gateway_function_invocation_total {function_name=~\".*\", code=~\"2.*\"}) by (function_name)"
InvocationCountNon2XXExpr == "sum(gateway_function_invocation_total {function_name=~\".*\", code!~\"2.*\"}) by (function_name)"
AverageResponseTimeExpr == "avg(gateway_functions_seconds_sum/gateway_functions_seconds_count {function_name=~\".*\"}) by (function_name)"

UpstreamErrorTextNoCode(code) ==
    <<"Error pulling metrics from provider/backend. Status code: ">>

\* fmt.Sprintf("Error pulling metrics from provider/backend. Status code: %d", recorder.Code)
UpstreamErrorText(code) ==
    <<"Error pulling metrics from provider/backend. Status code: ", Itoa(code)>>

ParseErrorTextWithErr(err) ==
    <<"Error parsing metrics from upstream provider/backend.", err>>

\* the diagnostic written when json.Unmarshal fails with err
ParseErrorText(err) == <<"Error parsing metrics from upstream provider/backend.">>

writeResponsePlain(rw, body) ==
    [ContentType |-> "text/plain", Code |-> StatusOK, Body |-> body]

writeResponse(rw, body) ==
    [ContentType |-> "application/json", Code |-> StatusOK, Body |-> body]

\* the locals of a handler invocation that has not started
NewRequest ==
    [pc |-> "Start", recorder |-> NewRecorder, upstreamBody |-> NoBytes, functions |-> <<>>,
     results |-> <<>>, fetchErr |-> FALSE, issued |-> <<>>, bytesOut |-> NoBytes,
     w |-> NewWriter, before |-> <<>>, calls |-> 0, nilArg |-> FALSE, panicked |-> FALSE,
     served |-> 0, wlog |-> <<>>]

NoAnswers == [upstream |-> NewRecorder, fetch |-> <<>>]

\* w.Header().Set, w.WriteHeader, w.Write
ResponseWritten(log) == log \o <<"Header.Set", "WriteHeader", "Write">>

Init ==
    /\ pc = "Start"
    /\ recorder = NewRecorder
    /\ upstreamBody = NoBytes
    /\ functions = <<>>
    /\ results = <<>>
    /\ fetchErr = FALSE
    /\ issued = <<>>
    /\ bytesOut = NoBytes
    /\ w = NewWriter
    /\ before = <<>>
    /\ calls = 0
    /\ nilArg = FALSE
    /\ panicked = FALSE
    /\ served = 0
    /\ wlog = <<>>
    /\ peer = NewRequest
    /\ answers = NoAnswers

\* handler.ServeHTTP(recorder, r): the wrapped handler writes into the recorder
CallUpstreamDirect ==
    /\ pc = "Start"
    /\ \E code \in StatusCodes, body \in UpstreamBodies :
          w' = [ContentType |-> UpstreamContentType(body), Code |-> code, Body |-> body]
    /\ pc' = "UpstreamCalled"
    /\ served' = served + 1
    /\ wlog' = ResponseWritten(wlog)
    /\ UNCHANGED <<recorder, upstreamBody, functions, results, fetchErr, issued, bytesOut,
                   before, calls, nilArg, panicked, peer, answers>>

CallUpstream ==
    /\ pc = "Start"
    /\ \E code \in StatusCodes, body \in UpstreamBodies :
          recorder' = [Code |-> code, ContentType |-> UpstreamContentType(body), Body |-> body]
    /\ pc' = "UpstreamCalled"
    /\ served' = served + 1
    /\ UNCHANGED <<upstreamBody, functions, results, fetchErr, issued, bytesOut, w,
                   before, calls, nilArg, panicked, wlog, peer, answers>>

\* from recorder.Result() to the parsed function list
CheckUpstreamParseFallsThrough ==
    /\ pc = "UpstreamCalled"
    /\ LET upstreamCall == Result(recorder)
           parsed == Unmarshal(upstreamCall.Body.bytes)
       IN IF upstreamCall.Body.isNil
          THEN /\ pc' = "BodyMissing"
               /\ UNCHANGED <<w, wlog, upstreamBody, functions>>
          ELSE IF recorder.Code # StatusOK
          THEN /\ w' = [ContentType |-> "text/plain",
                        Code |-> StatusInternalServerError,
                        Body |-> Text(UpstreamErrorText(recorder.Code))]
               /\ wlog' = ResponseWritten(wlog)
               /\ pc' = "UpstreamError"
               /\ UNCHANGED <<upstreamBody, functions>>
          ELSE /\ upstreamBody' = upstreamCall.Body.bytes
               /\ functions' = parsed.functions
               /\ IF parsed.err # ""
                  THEN /\ w' = [ContentType |-> "text/plain",
                                Code |-> StatusInternalServerError,
                                Body |-> Text(ParseErrorText(parsed.err))]
                       /\ wlog' = ResponseWritten(wlog)
                       /\ pc' = "Querying"
                  ELSE /\ pc' = "Querying"
                       /\ UNCHANGED <<w, wlog>>
    /\ UNCHANGED <<recorder, results, fetchErr, issued, bytesOut,
                   before, calls, nilArg, panicked, served, peer, answers>>

CheckUpstreamStatusFallsThrough ==
    /\ pc = "UpstreamCalled"
    /\ LET upstreamCall == Result(recorder)
           parsed == Unmarshal(upstreamCall.Body.bytes)
       IN IF upstreamCall.Body.isNil
          THEN /\ pc' = "BodyMissing"
               /\ UNCHANGED <<w, wlog, upstreamBody, functions>>
          ELSE IF recorder.Code # StatusOK
          THEN /\ w' = [ContentType |-> "text/plain",
                        Code |-> StatusInternalServerError,
                        Body |-> Text(UpstreamErrorText(recorder.Code))]
               /\ wlog' = ResponseWritten(wlog)
               /\ pc' = IF parsed.err # "" THEN "ParseError" ELSE "Querying"
               /\ upstreamBody' = upstreamCall.Body.bytes
               /\ functions' = parsed.functions
          ELSE /\ upstreamBody' = upstreamCall.Body.bytes
               /\ functions' = parsed.functions
               /\ IF parsed.err # ""
                  THEN /\ w' = [ContentType |-> "text/plain",
                                Code |-> StatusInternalServerError,
                                Body |-> Text(ParseErrorText(parsed.err))]
                       /\ wlog' = ResponseWritten(wlog)
                       /\ pc' = "ParseError"
                  ELSE /\ pc' = "Querying"
                       /\ UNCHANGED <<w, wlog>>
    /\ UNCHANGED <<recorder, results, fetchErr, issued, bytesOut,
                   before, calls, nilArg, panicked, served, peer, answers>>

CheckUpstream ==
    /\ pc = "UpstreamCalled"
    /\ LET upstreamCall == Result(recorder)
           parsed == Unmarshal(upstreamCall.Body.bytes)
       IN IF upstreamCall.Body.isNil
          THEN /\ pc' = "BodyMissing"
               /\ UNCHANGED <<w, wlog, upstreamBody, functions>>
          ELSE IF recorder.Code # StatusOK
          THEN /\ w' = [ContentType |-> "text/plain",
                        Code |-> StatusInternalServerError,
                        Body |-> Text(UpstreamErrorText(recorder.Code))]
               /\ wlog' = ResponseWritten(wlog)
               /\ pc' = "UpstreamError"
               /\ UNCHANGED <<upstreamBody, functions>>
          ELSE /\ upstreamBody' = upstreamCall.Body.bytes
               /\ functions' = parsed.functions
               /\ IF parsed.err # ""
                  THEN /\ w' = [ContentType |-> "text/plain",
                                Code |-> StatusInternalServerError,
                                Body |-> Text(ParseErrorText(parsed.err))]
                       /\ wlog' = ResponseWritten(wlog)
                       /\ pc' = "ParseError"
                  ELSE /\ pc' = "Querying"
                       /\ UNCHANGED <<w, wlog>>
    /\ UNCHANGED <<recorder, results, fetchErr, issued, bytesOut,
                   before, calls, nilArg, panicked, served, peer, answers>>

\* the k-th `prometheusQuery.Fetch(expr)` and the test of its error
FetchStep(k, expr) ==
    /\ pc = "Querying"
    /\ Len(results) = k - 1
    /\ issued' = Append(issued, QueryEscape(expr))
    /\ \/ /\ fetchErr' = TRUE
          /\ w' = writeResponse(w, upstreamBody)
          /\ wlog' = ResponseWritten(wlog)
          /\ pc' = "QueryFailed"
          /\ UNCHANGED results
       \/ /\ \E r \in Responses(TotalLen(results)) : results' = Append(results, r)
          /\ fetchErr' = FALSE
          /\ pc' = IF k = 4 THEN "AllQueriesOK" ELSE "Querying"
          /\ UNCHANGED <<w, wlog>>
    /\ UNCHANGED <<recorder, upstreamBody, functions, bytesOut,
                   before, calls, nilArg, panicked, served, peer, answers>>

Fetch1 == FetchStep(1, InvocationCountExpr)
Fetch2Repeated == FetchStep(2, InvocationCountExpr)
Fetch2 == FetchStep(2, InvocationCount2XXExpr)
Fetch3 == FetchStep(3, InvocationCountNon2XXExpr)
Fetch4 == FetchStep(4, AverageResponseTimeExpr)

\* mixIn(&functions, results, invocationCount2XXResults, ...)
MergeArgumentsSwapped ==
    /\ pc = "AllQueriesOK"
    /\ LET r == mixIn(Ptr(functions), results[2], results[1], results[3], results[4])
       IN /\ functions' = r.functions
          /\ panicked' = r.panicked
          /\ pc' = IF r.panicked THEN "Panicked" ELSE "Merged"
    /\ before' = functions
    /\ calls' = calls + 1
    /\ UNCHANGED <<recorder, upstreamBody, results, fetchErr, issued, bytesOut, w, nilArg,
                   served, wlog, peer, answers>>

Merge ==
    /\ pc = "AllQueriesOK"
    /\ LET r == mixIn(Ptr(functions), results[1], results[2], results[3], results[4])
       IN /\ functions' = r.functions
          /\ panicked' = r.panicked
          /\ pc' = IF r.panicked THEN "Panicked" ELSE "Merged"
    /\ before' = functions
    /\ calls' = calls + 1
    /\ UNCHANGED <<recorder, upstreamBody, results, fetchErr, issued, bytesOut, w, nilArg,
                   served, wlog, peer, answers>>

\* bytesOut, marshalErr := json.Marshal(functions)
Serialize ==
    /\ pc = "Merged"
    /\ LET m == Marshal(functions)
       IN /\ bytesOut' = m.bytes
          /\ pc' = IF m.err # "" THEN "SerializeFailed" ELSE "Serialized"
    /\ UNCHANGED <<recorder, upstreamBody, functions, results, fetchErr, issued, w,
                   before, calls, nilArg, panicked, served, wlog, peer, answers>>

\* the final Header().Set, WriteHeader and Write
Write ==
    /\ pc = "Serialized"
    /\ w' = [ContentType |-> "application/json", Code |-> StatusOK, Body |-> bytesOut]
    /\ wlog' = ResponseWritten(wlog)
    /\ pc' = "Written200"
    /\ UNCHANGED <<recorder, upstreamBody, functions, results, fetchErr, issued, bytesOut,
                   before, calls, nilArg, panicked, served, peer, answers>>

Next ==
    \/ CallUpstream
    \/ CheckUpstream
    \/ Fetch1
    \/ Fetch2
    \/ Fetch3
    \/ Fetch4
    \/ Merge
    \/ Serialize
    \/ Write

Spec == Init /\ [][Next]_vars

----------------------------------------------------------------------------
\* mixIn on its own: every function list and every four query results, the
\* call repeated on the list it has just left

InitMerge ==
    /\ pc = "mixIn"
    /\ recorder = NewRecorder
    /\ upstreamBody = NoBytes
    /\ fetchErr = FALSE
    /\ issued = <<>>
    /\ bytesOut = NoBytes
    /\ w = NewWriter
    /\ before = <<>>
    /\ calls = 0
    /\ panicked = FALSE
    /\ served = 0
    /\ wlog = <<>>
    /\ peer = NewRequest
    /\ answers = NoAnswers
    /\ nilArg \in BOOLEAN
    /\ functions \in IF nilArg THEN {<<>>} ELSE FunctionLists
    /\ \E absent \in {{}, {2}} :
       \E r1 \in IF 1 \in absent THEN {NilResponse} ELSE Responses(0) :
       \E r2 \in IF 2 \in absent THEN {NilResponse} ELSE Responses(TotalLen(<<r1>>)) :
       \E r3 \in IF 3 \in absent THEN {NilResponse} ELSE Responses(TotalLen(<<r1, r2>>)) :
       \E r4 \in IF 4 \in absent THEN {NilResponse} ELSE Responses(TotalLen(<<r1, r2, r3>>)) :
          results = <<r1, r2, r3, r4>>

MixInCall ==
    /\ pc = "mixIn"
    /\ calls < MaxCalls
    /\ LET r == mixIn(IF nilArg THEN NilPtr ELSE Ptr(functions),
                      results[1], results[2], results[3], results[4])
       IN /\ functions' = r.functions
          /\ panicked' = r.panicked
    /\ before' = functions
    /\ calls' = calls + 1
    /\ UNCHANGED <<pc, recorder, upstreamBody, results, fetchErr, issued, bytesOut, w, nilArg,
                   served, wlog, peer, answers>>

NextMerge == MixInCall

SpecMerge == InitMerge /\ [][NextMerge]_vars

----------------------------------------------------------------------------
\* Two requests served by the same decorator at the same time. net/http runs
\* each request in its own goroutine; every variable of the handler is a local
\* of the closure, so a goroutine switch exchanges all of them.

Local ==
    [pc |-> pc, recorder |-> recorder, upstreamBody |-> upstreamBody, functions |-> functions,
     results |-> results, fetchErr |-> fetchErr, issued |-> issued, bytesOut |-> bytesOut,
     w |-> w, before |-> before, calls |-> calls, nilArg |-> nilArg, panicked |-> panicked,
     served |-> served, wlog |-> wlog]

\* the other goroutine runs
SwitchSharedFunctions ==
    /\ peer' = Local
    /\ pc' = peer.pc
    /\ recorder' = peer.recorder
    /\ upstreamBody' = peer.upstreamBody
    /\ functions' = functions
    /\ results' = peer.results
    /\ fetchErr' = peer.fetchErr
    /\ issued' = peer.issued
    /\ bytesOut' = peer.bytesOut
    /\ w' = peer.w
    /\ before' = peer.before
    /\ calls' = peer.calls
    /\ nilArg' = peer.nilArg
    /\ panicked' = peer.panicked
    /\ served' = peer.served
    /\ wlog' = peer.wlog
    /\ UNCHANGED answers

Switch ==
    /\ peer' = Local
    /\ pc' = peer.pc
    /\ recorder' = peer.recorder
    /\ upstreamBody' = peer.upstreamBody
    /\ functions' = peer.functions
    /\ results' = peer.results
    /\ fetchErr' = peer.fetchErr
    /\ issued' = peer.issued
    /\ bytesOut' = peer.bytesOut
    /\ w' = peer.w
    /\ before' = peer.before
    /\ calls' = peer.calls
    /\ nilArg' = peer.nilArg
    /\ panicked' = peer.panicked
    /\ served' = peer.served
    /\ wlog' = peer.wlog
    /\ UNCHANGED answers

\* the upstream outputs and fetch results of the two-handler specifications
PairCodes == {200, 503}
PairBodies ==
    {JSONBytes("spaced", <<Function("fn1", <<5, 6, 7, 8>>)>>),
     JSONBytes("compact", <<Function("fn2", <<0, 0, 0, 0>>)>>),
     Garbage}
PairSamples ==
    {Sample("fn1", <<Float64Value, Str("1")>>),
     Sample("fn2", <<Float64Value, Str("1")>>)}
PairResponses == {Response(<<>>)} \cup {Response(<<v>>) : v \in PairSamples}

\* at most one of the results of a request carries a sample
FewSamples(rs) == Cardinality({k \in 1..Len(rs) : rs[k].Data.Result # <<>>}) <= 1

PairAnswer ==
    \/ results' = results
    \/ /\ results'[Len(results')] \in PairResponses
       /\ FewSamples(results')

PairCallUpstream ==
    /\ CallUpstream
    /\ recorder'.Code \in PairCodes
    /\ recorder'.Body \in PairBodies

PairFetch1 == Fetch1 /\ PairAnswer
PairFetch2 == Fetch2 /\ PairAnswer
PairFetch3 == Fetch3 /\ PairAnswer
PairFetch4 == Fetch4 /\ PairAnswer

NextConc ==
    \/ PairCallUpstream
    \/ CheckUpstream
    \/ PairFetch1
    \/ PairFetch2
    \/ PairFetch3
    \/ PairFetch4
    \/ Merge
    \/ Serialize
    \/ Write
    \/ Switch

SpecConc == Init /\ [][NextConc]_vars

----------------------------------------------------------------------------
\* The fan-out/fan-in variant of the handler (the four fetches in flight
\* together, joined before the merge) run beside the sequential handler on the
\* same upstream output and the same answer per expression. The sequential
\* handler uses the variables, the variant the record `peer`.

Failure == [err |-> TRUE, response |-> NilResponse]
Success(r) == [err |-> FALSE, response |-> r]
Pending == [err |-> FALSE, response |-> NilResponse]

FanSamples ==
    {Sample("fn1", <<Float64Value, Str("1")>>),
     Sample("fn1", <<Float64Value, Str("NaN")>>),
     Sample("fn1", <<Float64Value>>)}
FanResponses == {Response(<<>>)} \cup {Response(<<v>>) : v \in FanSamples}

FanAnswers ==
    {[upstream |-> [Code |-> code, ContentType |-> UpstreamContentType(body), Body |-> body],
      fetch |-> f] :
        code \in PairCodes, body \in PairBodies,
        f \in {g \in [1..4 -> {Failure} \cup {Success(r) : r \in FanResponses}] :
                 FewSamples([k \in 1..4 |-> g[k].response])}}

\* the locals of the variant before it starts
NewFan ==
    [pc |-> "Start", recorder |-> NewRecorder, upstreamBody |-> NoBytes, functions |-> <<>>,
     got |-> [q \in 1..4 |-> Pending], w |-> NewWriter, wlog |-> <<>>]

InitFan ==
    /\ pc = "Start"
    /\ recorder = NewRecorder
    /\ upstreamBody = NoBytes
    /\ functions = <<>>
    /\ results = <<>>
    /\ fetchErr = FALSE
    /\ issued = <<>>
    /\ bytesOut = NoBytes
    /\ w = NewWriter
    /\ before = <<>>
    /\ calls = 0
    /\ nilArg = FALSE
    /\ panicked = FALSE
    /\ served = 0
    /\ wlog = <<>>
    /\ peer = NewFan
    /\ answers \in FanAnswers

\* the sequential handler, its collaborators answering as `answers` says
AnsweredCallUpstream ==
    /\ CallUpstream
    /\ recorder' = answers.upstream

Answered(k) ==
    IF answers.fetch[k].err
    THEN fetchErr'
    ELSE ~fetchErr' /\ results' = Append(results, answers.fetch[k].response)

AnsweredFetch1 == Fetch1 /\ Answered(1)
AnsweredFetch2 == Fetch2 /\ Answered(2)
AnsweredFetch3 == Fetch3 /\ Answered(3)
AnsweredFetch4 == Fetch4 /\ Answered(4)

\* the variant: steps 1 to 4 as in the sequential handler
FanCallUpstream ==
    /\ peer.pc = "Start"
    /\ peer' = [peer EXCEPT !.recorder = answers.upstream, !.pc = "UpstreamCalled"]
    /\ UNCHANGED <<local, answers>>

FanCheckUpstream ==
    /\ peer.pc = "UpstreamCalled"
    /\ LET parsed == Unmarshal(peer.recorder.Body)
       IN peer' =
            IF peer.recorder.Code # StatusOK
            THEN [peer EXCEPT !.w = [ContentType |-> "text/plain",
                                     Code |-> StatusInternalServerError,
                                     Body |-> Text(UpstreamErrorText(peer.recorder.Code))],
                              !.wlog = ResponseWritten(@),
                              !.pc = "UpstreamError"]
            ELSE IF parsed.err # ""
            THEN [peer EXCEPT !.upstreamBody = peer.recorder.Body,
                              !.w = [ContentType |-> "text/plain",
                                     Code |-> StatusInternalServerError,
                                     Body |-> Text(ParseErrorText(parsed.err))],
                              !.wlog = ResponseWritten(@),
                              !.pc = "ParseError"]
            ELSE [peer EXCEPT !.upstreamBody = peer.recorder.Body,
                              !.functions = parsed.functions,
                              !.pc = "Querying"]
    /\ UNCHANGED <<local, answers>>

\* one of the four fetches in flight completes, in any order
FanFetch ==
    /\ peer.pc = "Querying"
    /\ \E q \in 1..4 :
          /\ peer.got[q] = Pending
          /\ peer' = [peer EXCEPT !.got[q] = answers.fetch[q]]
    /\ UNCHANGED <<local, answers>>

\* the join: fall back when a fetch failed, else merge, serialise and write
FanJoin ==
    /\ peer.pc = "Querying"
    /\ \A q \in 1..4 : peer.got[q] # Pending
    /\ LET merged == mixIn(Ptr(peer.functions), peer.got[1].response, peer.got[2].response,
                           peer.got[3].response, peer.got[4].response)
           m == Marshal(merged.functions)
       IN peer' =
            IF \E q \in 1..4 : peer.got[q].err
            THEN [peer EXCEPT !.w = writeResponse(peer.w, peer.upstreamBody),
                              !.wlog = ResponseWritten(@),
                              !.pc = "QueryFailed"]
            ELSE IF merged.panicked
            THEN [peer EXCEPT !.functions = merged.functions, !.pc = "Panicked"]
            ELSE IF m.err # ""
            THEN [peer EXCEPT !.functions = merged.functions, !.pc = "SerializeFailed"]
            ELSE [peer EXCEPT !.functions = merged.functions,
                              !.w = [ContentType |-> "application/json",
                                     Code |-> StatusOK, Body |-> m.bytes],
                              !.wlog = ResponseWritten(@),
                              !.pc = "Written200"]
    /\ UNCHANGED <<local, answers>>

NextFan ==
    \/ AnsweredCallUpstream
    \/ CheckUpstream
    \/ AnsweredFetch1
    \/ AnsweredFetch2
    \/ AnsweredFetch3
    \/ AnsweredFetch4
    \/ Merge
    \/ Serialize
    \/ Write
    \/ FanCallUpstream
    \/ FanCheckUpstream
    \/ FanFetch
    \/ FanJoin

SpecFan == InitFan /\ [][NextFan]_vars

----------------------------------------------------------------------------
\* Vocabulary of the properties

\* the four query results of a request, once all are fetched
Metrics(q) == results[q].Data.Result

\* a sample that carries a number: a value tuple with a string that parses
IsNumber(v) ==
    /\ Len(v.Value) >= 2
    /\ v.Value[2].type = "string"
    /\ ~ParseFloat(v.Value[2].s).err

\* a sample whose value is a string that does not parse
Unparseable(v) ==
    /\ Len(v.Value) >= 2
    /\ v.Value[2].type = "string"
    /\ ParseFloat(v.Value[2].s).err

\* sum of the numbers of the samples of R labelled with name
RECURSIVE SumOf(_, _)
SumOf(R, name) ==
    IF R = <<>> THEN Num(0)
    ELSE FAdd(IF Head(R).Metric.FunctionName = name /\ IsNumber(Head(R))
              THEN ParseFloat(Head(R).Value[2].s).val
              ELSE Num(0),
              SumOf(Tail(R), name))

Labelled(R, name) == {j \in 1..Len(R) : R[j].Metric.FunctionName = name}

\* the list the upstream handler sent, each record carrying the four sums
EnrichedList ==
    LET parsed == Unmarshal(recorder.Body).functions
    IN [i \in 1..Len(parsed) |->
          [Name |-> parsed[i].Name,
           InvocationCount |-> SumOf(Metrics(1), parsed[i].Name),
           InvocationCount2XX |-> SumOf(Metrics(2), parsed[i].Name),
           InvocationCountNon2XX |-> SumOf(Metrics(3), parsed[i].Name),
           AverageResponseTime |-> SumOf(Metrics(4), parsed[i].Name)]]

\* the argument and the outcome of the last mixIn call
LastArg == IF nilArg THEN NilPtr ELSE Ptr(before)
LastOutcome == [functions |-> functions, panicked |-> panicked]

\* a query result without the samples that satisfy Drop
Without(m, Drop(_)) ==
    IF m.isNil THEN m
    ELSE Response(SelectSeq(m.Data.Result, LAMBDA v : ~Drop(v)))

NamesNoRecord(v) ==
    \A i \in 1..Len(before) : before[i].Name # v.Metric.FunctionName

AfterCheck == pc \notin {"Start", "UpstreamCalled", "mixIn"}

\* the handler function has returned
Returned ==
    pc \in {"BodyMissing", "UpstreamError", "ParseError", "QueryFailed",
            "SerializeFailed", "Written200"}

----------------------------------------------------------------------------
\* C1: when a fetch returns an error (the first, second, third or fourth), the
\* request ends in the fallback: status 200, Content-Type application/json and
\* the captured upstream body exactly as captured; mixIn has not run and the
\* parsed list is untouched.
FallbackIsVerbatim ==
    /\ fetchErr =>
          /\ pc = "QueryFailed"
          /\ w = [ContentType |-> "application/json", Code |-> 200, Body |-> recorder.Body]
          /\ calls = 0
          /\ functions = Unmarshal(recorder.Body).functions
    /\ pc = "QueryFailed" => fetchErr

FallbackReached ==
    /\ pc = "QueryFailed"
    /\ Len(results) = 3
    /\ recorder.Body.layout = "spaced"
    /\ Len(recorder.Body.funcs) > 0
    /\ recorder.Body.funcs[1].InvocationCount = Num(5)
    /\ w.Body = recorder.Body

\* C2: a captured status other than 200 ends the request with status 500,
\* Content-Type text/plain and a diagnostic that contains the captured status
\* code, whatever the captured body is; no fetch is issued.
UpstreamErrorIs500 ==
    (AfterCheck /\ recorder.Code # 200) =>
        /\ pc = "UpstreamError"
        /\ w.Code = 500
        /\ w.ContentType = "text/plain"
        /\ w.Body.kind = "text"
        /\ \E k \in 1..Len(w.Body.text) : w.Body.text[k] = Itoa(recorder.Code)
        /\ issued = <<>>

UpstreamErrorReached ==
    /\ pc = "UpstreamError"
    /\ recorder.Code = 503
    /\ recorder.Body.kind = "json"
    /\ Len(recorder.Body.funcs) > 0
    /\ w.Code = 500

\* C3: status 200 with a body that does not parse as a function list ends the
\* request with status 500, Content-Type text/plain and one fixed text; the body
\* is not passed through.
ParseErrorIsFixed500 ==
    (AfterCheck /\ recorder.Code = 200 /\ Unmarshal(recorder.Body).err # "") =>
        /\ pc = "ParseError"
        /\ w = [ContentType |-> "text/plain", Code |-> 500,
                Body |-> Text(<<"Error parsing metrics from upstream provider/backend.">>)]

ParseErrorReached ==
    /\ pc = "ParseError"
    /\ recorder.Body = Garbage
    /\ w.Code = 500

\* C4: a request that reaches the final write has status 200, Content-Type
\* application/json and as body the serialised upstream list in which each of
\* the four derived fields of each record is the sum of the numbers of the
\* samples of its own query result that are labelled with the record's Name.
EnrichedIsSumPerQuery ==
    pc = "Written200" =>
        w = [ContentType |-> "application/json", Code |-> 200,
             Body |-> JSONBytes("compact", EnrichedList)]

EnrichedReached ==
    /\ pc = "Written200"
    /\ Len(functions) = 2
    /\ \E i \in 1..2 : /\ functions[i].InvocationCount2XX.v > 0
                       /\ functions[i].AverageResponseTime.v > 0
                       /\ functions[i].InvocationCountNon2XX.v = 0
    /\ recorder.Body.funcs[1].InvocationCount = Num(5)

\* C5: every request whose handler has returned has a response written: JSON
\* with status 200 (enriched or unenriched) or a 500 with a diagnostic text.
EveryRequestAnswered ==
    Returned =>
        \/ /\ w.Code = 200
           /\ w.ContentType = "application/json"
           /\ w.Body.kind = "json"
        \/ /\ w.Code = 500
           /\ w.ContentType = "text/plain"
           /\ w.Body.kind = "text"

\* C6: a mixIn call that follows a mixIn call with the same query results
\* leaves the list (and the way the call ends) exactly as the first left it.
MergeIdempotent ==
    [][calls >= 1 => (functions' = functions /\ panicked' = panicked)]_vars

MergedTwice ==
    /\ pc = "mixIn"
    /\ calls = 2
    /\ ~nilArg
    /\ ~panicked
    /\ \E i \in 1..Len(functions) : functions[i].InvocationCount.v > 0

\* C7: when the four query results hold no sample, mixIn leaves every derived
\* field of every record at 0, whatever the fields held before.
ZeroSafeMerge ==
    (/\ pc = "mixIn"
     /\ calls >= 1
     /\ ~nilArg
     /\ \A q \in 1..4 : ~results[q].isNil /\ Metrics(q) = <<>>) =>
        \A i \in 1..Len(functions) : \A q \in 1..4 : functions[i][Fields[q]] = Num(0)

ZeroedFromPrior ==
    /\ pc = "mixIn"
    /\ calls = 1
    /\ ~nilArg
    /\ \A q \in 1..4 : ~results[q].isNil /\ Metrics(q) = <<>>
    /\ Len(before) = 2
    /\ before[2].AverageResponseTime = Num(8)
    /\ functions[2].AverageResponseTime = Num(0)

\* C8: when a query result holds several samples labelled with a record's
\* Name, a completed mixIn leaves in the record's field for that query the sum
\* of all of them that carry a number.
DuplicatesAreSummed ==
    (pc = "mixIn" /\ calls >= 1 /\ ~nilArg /\ ~panicked) =>
        \A i \in 1..Len(functions) : \A q \in 1..4 :
            Cardinality(Labelled(Metrics(q), functions[i].Name)) >= 2 =>
                functions[i][Fields[q]] = SumOf(Metrics(q), functions[i].Name)

DuplicatesSummed ==
    /\ pc = "mixIn"
    /\ calls = 1
    /\ ~nilArg
    /\ ~panicked
    /\ Len(functions) >= 1
    /\ functions[1].Name = "fn1"
    /\ ~results[3].isNil
    /\ Metrics(3) = <<Sample("fn1", <<Float64Value, Str("1")>>),
                      Sample("fn1", <<Float64Value, Str("1")>>)>>
    /\ functions[1].InvocationCountNon2XX = Num(2)

\* C9: samples whose value does not parse are skipped and nothing else: the
\* call leaves the list, and ends, exactly as it does on the same query results
\* without those samples.
UnparseableIsSkipped ==
    (pc = "mixIn" /\ calls >= 1) =>
        mixIn(LastArg,
              Without(results[1], Unparseable), Without(results[2], Unparseable),
              Without(results[3], Unparseable), Without(results[4], Unparseable))
        = LastOutcome

UnparseableSkipped ==
    /\ pc = "mixIn"
    /\ calls = 1
    /\ ~nilArg
    /\ ~panicked
    /\ Len(functions) >= 1
    /\ functions[1].Name = "fn1"
    /\ ~results[1].isNil
    /\ Metrics(1) = <<Sample("fn1", <<Float64Value, Str("abc")>>),
                      Sample("fn1", <<Float64Value, Str("1")>>)>>
    /\ functions[1].InvocationCount = Num(1)

\* C10: samples labelled with the Name of no record change nothing: the call
\* leaves the list, and ends, exactly as it does on the same query results
\* without those samples.
NonMatchIsIsolated ==
    (pc = "mixIn" /\ calls >= 1) =>
        mixIn(LastArg,
              Without(results[1], NamesNoRecord), Without(results[2], NamesNoRecord),
              Without(results[3], NamesNoRecord), Without(results[4], NamesNoRecord))
        = LastOutcome

NonMatchIsolated ==
    /\ pc = "mixIn"
    /\ calls = 1
    /\ ~nilArg
    /\ ~panicked
    /\ Len(functions) = 2
    /\ functions[1].Name = "fn1"
    /\ functions[2].Name = "fn1"
    /\ ~results[2].isNil
    /\ Metrics(2) = <<Sample("Fn1", <<Float64Value, Str("2")>>),
                      Sample("Fn1", <<Float64Value, Str("2")>>)>>
    /\ \A i \in 1..2 : \A q \in 1..4 : functions[i][Fields[q]] = Num(0)

----------------------------------------------------------------------------
\* C11: parseMetricValue returns an error for every value that is not a
\* string: each sample value of another type that a completed mixIn call
\* handed to the parser (the sample names a record) is rejected by it.
NonStringIsRejected ==
    (pc = "mixIn" /\ calls >= 1 /\ ~nilArg /\ ~panicked) =>
        \A i \in 1..Len(functions) : \A q \in 1..4 : \A j \in 1..Len(Metrics(q)) :
            (/\ Metrics(q)[j].Metric.FunctionName = functions[i].Name
             /\ Len(Metrics(q)[j].Value) >= 2
             /\ Metrics(q)[j].Value[2].type # "string") =>
                parseMetricValue(Metrics(q)[j].Value[2]).err

\* C12: mixIn never crashes, whatever the list and the query results (absent
\* results and short value tuples included), and with functions == nil it
\* changes nothing.
MergeNeverCrashes ==
    (pc = "mixIn" /\ calls >= 1) =>
        /\ ~panicked
        /\ nilArg => functions = before

\* C13: the expressions are fetched one after another in the fixed order total,
\* 2xx, non-2xx, average; at most four are issued; when the k-th fetch fails
\* exactly k have been issued (k-1 results and the failed one) and the request
\* has ended.
FetchesInOrder ==
    LET order == <<InvocationCountExpr, InvocationCount2XXExpr,
                   InvocationCountNon2XXExpr, AverageResponseTimeExpr>>
    IN /\ Len(issued) <= 4
       /\ \A k \in 1..Len(issued) : issued[k].escaped /\ issued[k].of = order[k]
       /\ Len(issued) = Len(results) + (IF fetchErr THEN 1 ELSE 0)
       /\ fetchErr => pc = "QueryFailed"

ThirdFetchFailed ==
    /\ pc = "QueryFailed"
    /\ fetchErr
    /\ Len(issued) = 3
    /\ Len(results) = 2

\* C14: the wrapped handler is called exactly once, before anything else; a
\* fetch is issued only after it returned 200 with a body that parses, so never
\* in a request that ends in UpstreamError, ParseError or BodyMissing; mixIn is
\* called only after four successful fetches, and once.
HandlerStepsInOrder ==
    /\ pc = "Start" => (served = 0 /\ issued = <<>> /\ calls = 0 /\ wlog = <<>>)
    /\ pc # "Start" => served = 1
    /\ issued # <<>> => (recorder.Code = 200 /\ Unmarshal(recorder.Body).err = "")
    /\ pc \in {"UpstreamError", "ParseError", "BodyMissing"} => issued = <<>>
    /\ calls <= 1
    /\ calls = 1 => (Len(results) = 4 /\ Len(issued) = 4 /\ ~fetchErr)

MergedAfterFourFetches ==
    /\ pc = "Merged"
    /\ served = 1
    /\ calls = 1
    /\ Len(issued) = 4
    /\ Len(functions) > 0

\* C15: a request that ends in UpstreamError, ParseError, QueryFailed or
\* Written200 has had exactly one response written (one header set, one status,
\* one body); one that ends in BodyMissing or SerializeFailed has had nothing
\* written.
OneResponsePerTerminal ==
    /\ pc \in {"UpstreamError", "ParseError", "QueryFailed", "Written200"} =>
          (wlog = <<"Header.Set", "WriteHeader", "Write">> /\ w.Code # 0)
    /\ pc \in {"BodyMissing", "SerializeFailed"} => (wlog = <<>> /\ w = NewWriter)

NothingWrittenOnSerializeFailure ==
    /\ pc = "SerializeFailed"
    /\ calls = 1
    /\ wlog = <<>>
    /\ w = NewWriter

\* C16: what the wrapped handler writes goes to the recorder and not to the
\* real writer; the status and Content-Type of the real writer are unset, or
\* 200 with application/json, or 500 with text/plain.
UpstreamIsCaptured ==
    /\ pc = "UpstreamCalled" => (w = NewWriter /\ wlog = <<>>)
    /\ w.Code \in {0, 200, 500}
    /\ w.Code = 0 => (w = NewWriter /\ wlog = <<>>)
    /\ w.Code = 200 => w.ContentType = "application/json"
    /\ w.Code = 500 => w.ContentType = "text/plain"

UpstreamStatusReplaced ==
    /\ pc = "UpstreamError"
    /\ recorder.Code = 404
    /\ recorder.ContentType = "text/html"
    /\ w.Code = 500
    /\ w.ContentType = "text/plain"

\* C17: a mixIn call leaves the list with the same length, the same order and
\* the same Names, and leaves the query results as they were.
MergeKeepsIdentity ==
    [][calls' = calls + 1 =>
          /\ Len(functions') = Len(functions)
          /\ \A i \in 1..Len(functions) : functions'[i].Name = functions[i].Name
          /\ results' = results]_vars

OnlyDerivedFieldsChanged ==
    /\ pc = "mixIn"
    /\ calls = 1
    /\ ~nilArg
    /\ Len(functions) = 2
    /\ functions[1].Name = "fn1"
    /\ functions[2].Name = "fn2"
    /\ before[1].InvocationCount = Num(5)
    /\ functions[1].InvocationCount = Num(1)
    /\ functions[2].InvocationCount = Num(0)

\* a handler invocation has ended: it returned or it panicked
Terminal(L) ==
    L.pc \in {"BodyMissing", "UpstreamError", "ParseError", "QueryFailed",
              "Panicked", "SerializeFailed", "Written200"}

\* what a request handled alone leaves on its writer, given the upstream
\* output it captured and the answers its fetches got
AloneResponse(L) ==
    LET parsed == Unmarshal(L.recorder.Body)
        merged == mixIn(Ptr(parsed.functions),
                        L.results[1], L.results[2], L.results[3], L.results[4])
    IN IF L.recorder.Code # 200
       THEN [ContentType |-> "text/plain", Code |-> 500,
             Body |-> Text(UpstreamErrorText(L.recorder.Code))]
       ELSE IF parsed.err # ""
       THEN [ContentType |-> "text/plain", Code |-> 500,
             Body |-> Text(ParseErrorText(parsed.err))]
       ELSE IF L.fetchErr
       THEN [ContentType |-> "application/json", Code |-> 200, Body |-> L.recorder.Body]
       ELSE IF merged.panicked \/ Marshal(merged.functions).err # ""
       THEN NewWriter
       ELSE [ContentType |-> "application/json", Code |-> 200,
             Body |-> Marshal(merged.functions).bytes]

\* C18: under every interleaving of two concurrent requests, each request ends
\* with the response it gets when handled alone with the same upstream output
\* and the same fetch answers, and the list it merged is its own.
RequestsAreIndependent ==
    \A L \in {Local, peer} :
        /\ Terminal(L) => L.w = AloneResponse(L)
        /\ L.calls = 1 => L.before = Unmarshal(L.recorder.Body).functions

FinishedBesideSuspendedPeer ==
    /\ pc = "Written200"
    /\ recorder.Body.funcs[1].Name = "fn2"
    /\ functions[1].InvocationCount = Num(1)
    /\ w.Body = JSONBytes("compact", functions)
    /\ peer.pc = "Merged"
    /\ peer.recorder.Body.funcs[1].Name = "fn1"
    /\ peer.functions[1].AverageResponseTime = Num(1)

\* C19: on the same upstream output and the same answer per expression, the
\* fan-out/fan-in variant ends with the response of the sequential handler
\* (status, content type, body, or nothing), in whatever order its fetches
\* complete.
FanOutWritesTheSame ==
    (Terminal(Local) /\ Terminal(peer)) => (w = peer.w /\ wlog = peer.wlog)

BothFellBack ==
    /\ pc = "QueryFailed"
    /\ Len(issued) = 2
    /\ peer.pc = "QueryFailed"
    /\ ~answers.fetch[1].err
    /\ answers.fetch[2].err
    /\ answers.fetch[3].response.Data.Result # <<>>
    /\ answers.fetch[4].err
    /\ w.Body = answers.upstream.Body
    /\ w = peer.w

====
